---- MODULE Spec2Model ----
(***************************************************************************)
(* LinguaPhon (src/app.py): a Streamlit script.  Every browser session     *)
(* re-executes the script top to bottom on each interaction (a "run"),     *)
(* each run in its own thread of one server process.  A run binds the      *)
(* cached recognizer (line 47), then executes Flow A (tab1, lines          *)
(* 152-196) when an audio recording is present and Flow B (tab2, lines     *)
(* 199-230) when the Synthesize button was pressed.                        *)
(***************************************************************************)
EXTENDS Integers, Sequences, FiniteSets, TLC

\* ---------------------------------------------------------------- bounds
MaxRuns     == 2      \* script runs started in total
MaxLen      == 2      \* tokens of a user-supplied IPA string
MaxFrames   == 2      \* frames of a pitch contour

\* Two browser sessions, each running the script in a thread of its own.
Sessions == {1, 2}
\* A run creates at most two transient files, each under a fresh name.
FileIds  == 1..(2 * MaxRuns)

\* ------------------------------------------------------------------ data
\* A user IPA string is a sequence of tokens: an IPA symbol or one of the
\* renderer's delimiters typed literally by the user.
Tokens     == {"a", "[[", "]]"}
RECURSIVE SeqsUpTo(_, _)
SeqsUpTo(S, n) ==
  IF n = 0 THEN {<<>>}
  ELSE LET shorter == SeqsUpTo(S, n - 1)
       IN  shorter \cup {Append(q, x) : q \in {r \in shorter : Len(r) = n - 1}, x \in S}
IpaStrings == SeqsUpTo(Tokens, MaxLen)

\* A pitch contour as parselmouth holds it: one frequency per frame, 0 for an
\* unvoiced frame.
Frequencies == {0, 100, 200}
Contours    == SeqsUpTo(Frequencies, MaxFrames)

NaN  == [nan |-> TRUE,  num |-> 0, den |-> 1]
Zero == [nan |-> FALSE, num |-> 0, den |-> 1]      \* the float 0.0

RECURSIVE SumSeq(_)
SumSeq(q) == IF q = <<>> THEN 0 ELSE Head(q) + SumSeq(Tail(q))

Voiced(contour) == SelectSeq(contour, LAMBDA x : x # 0)

\* pitch.get_mean(): the mean over the voiced frames, undefined (NaN) when no
\* frame is voiced.  Kept as an exact fraction.
get_mean(contour) ==
  LET v == Voiced(contour)
  IN  IF Len(v) = 0 THEN NaN
      ELSE [nan |-> FALSE, num |-> SumSeq(v), den |-> Len(v)]

mean_f0_unguarded(m) == m

\* line 100: if np.isnan(mean_f0): mean_f0 = 0.0
mean_f0(m) == IF m.nan THEN Zero ELSE m

\* line 76: formatted_ipa = f'[[{ipa_string}]]'
formatted_ipa(ipa_string) == <<"[[">> \o ipa_string \o <<"]]">>

\* How the renderer reads its argument under the [[ ]] convention: text
\* until an opening delimiter, phonemes until the next closing delimiter.
\* The result gives, for every token, how it was read.
RECURSIVE Interpret(_, _)
Interpret(arg, mode) ==
  IF arg = <<>> THEN <<>>
  ELSE LET t == Head(arg)
       IN  IF mode = "text" /\ t = "[["
             THEN <<"open">> \o Interpret(Tail(arg), "phon")
           ELSE IF mode = "phon" /\ t = "]]"
             THEN <<"close">> \o Interpret(Tail(arg), "text")
           ELSE <<mode>> \o Interpret(Tail(arg), mode)

\* ----------------------------------------------------------------- state
VARIABLES
  sess,            \* per session: the current (or last) script run's locals
  cache,           \* st.cache_resource's entry for load_allosaurus: 0 = empty
  lock,            \* holder of the cache's compute lock, 0 = free
  initCalls,       \* calls made to read_recognizer()
  instances,       \* recognizer objects constructed (read_recognizer returned)
  recognizedWith,  \* recognizer instances that served a model.recognize call
  files,           \* transient paths that exist on disk
  runs,            \* script runs started
  faults           \* "staleRead": a file read after its unlink;
                   \* "doubleUnlink": os.unlink of a path already unlinked

vars == <<sess, cache, lock, initCalls, instances, recognizedWith,
          files, runs, faults>>

\* NamedTemporaryFile picks a name that no other file has: the names of run
\* number n are 2n-1 (Flow A's upload) and 2n (Flow B's rendering).
tmp_name(n) == 2 * n - 1
out_name(n) == 2 * n

Unset == [nan |-> FALSE, num |-> 0, den |-> 0]

\* The locals of a run before its first statement.  content is what the
\* transient file of the flow in progress holds; it is kept with the run
\* because no other run ever opens that path.
FreshRun ==
  [pc |-> "idle", run |-> 0, model |-> 0, tmp_path |-> 0, output_file |-> 0,
   synth_path |-> 0, content |-> "none", cmd |-> <<>>, rc |-> "none",
   pitch |-> <<>>, f0 |-> Unset, available |-> {}, presented |-> {},
   outcome |-> "none", failedAt |-> "none"]

Init ==
  /\ sess = [s \in Sessions |-> FreshRun]
  /\ cache = 0
  /\ lock = 0
  /\ initCalls = 0
  /\ instances = 0
  /\ recognizedWith = {}
  /\ files = {}
  /\ runs = 0
  /\ faults = {}

\* ---------------------------------------------------------- control flow
SuccUnlinkBeforeAnalyze(p) ==
  CASE p = "recognize" -> "analyzeA"
    [] p = "analyzeA"  -> "presentA"
    [] p = "presentA"  -> "plotA"
    [] p = "plotA"     -> "unlinkA"
    [] p = "unlinkA"   -> "tab2"
    [] p = "audioB"    -> "unlinkB"
    [] p = "unlinkB"   -> "analyzeB"
    [] p = "analyzeB"  -> "plotB"
    [] p = "plotB"     -> "end"

\* Statement order of the two flows: the position reached when the
\* statement at p returns normally.
Succ(p) ==
  CASE p = "recognize" -> "analyzeA"     \* 164 -> 167
    [] p = "analyzeA"  -> "presentA"     \* 167 -> 170
    [] p = "presentA"  -> "plotA"        \* 170-192 -> 194
    [] p = "plotA"     -> "unlinkA"      \* 194 -> 196
    [] p = "unlinkA"   -> "tab2"         \* 196 -> 199
    [] p = "audioB"    -> "analyzeB"     \* 221 -> 225
    [] p = "analyzeB"  -> "plotB"        \* 225 -> 226
    [] p = "plotB"     -> "unlinkB"      \* 226 -> 228
    [] p = "unlinkB"   -> "end"          \* 228 -> 232

FlowOf(p) == IF p \in {"recognize", "analyzeA", "presentA", "plotA", "unlinkA"}
             THEN "A" ELSE "B"

\* The path a flow's statements read: tmp_path in Flow A, synth_path in Flow B.
PathOf(r) == IF FlowOf(r.pc) = "A" THEN r.tmp_path ELSE r.synth_path

\* When a run ends its script namespace is discarded: model, the analysis
\* results and the sub-results held in locals are gone.  What the run wrote to
\* the page (presented) stays, and so do, as a record of the run, the paths of
\* the transient files it created, the renderer's exit and where it failed.
Ended(r, how) ==
  [r EXCEPT !.pc = "idle", !.outcome = how, !.run = 0, !.model = 0, !.synth_path = 0,
            !.content = "none", !.cmd = <<>>, !.pitch = <<>>, !.f0 = Unset,
            !.available = {}]

\* The run reaches the end of the script (line 233).
Finish(r) == Ended(r, "done")

\* The statement at r.pc returned normally.
Advance(r) == IF Succ(r.pc) = "end" THEN Finish(r) ELSE [r EXCEPT !.pc = Succ(r.pc)]

\* An exception leaves the statement at r.pc; no try/except encloses it, so it
\* leaves the script.
Raise(r, where) == Ended([r EXCEPT !.failedAt = where], "uncaught")

ReadFault(f) == IF f \in files THEN {} ELSE {"staleRead"}

\* -------------------------------------------------- recognizer (42-47)
CacheNeverHit(c) == FALSE

\* @st.cache_resource (line 42): a call is served from the cache once a
\* value was stored for it.
CacheHit(c) == c # 0

\* A browser interaction starts a run of the script.
StartRun(s) ==
  /\ sess[s].pc = "idle"
  /\ runs < MaxRuns
  /\ runs' = runs + 1
  /\ sess' = [sess EXCEPT ![s] = [FreshRun EXCEPT !.pc = "load", !.run = runs + 1,
                                                  !.outcome = "running"]]
  /\ UNCHANGED <<cache, lock, initCalls, instances, recognizedWith, files, faults>>

\* line 47, model = load_allosaurus(): the cached function's lookup, made
\* without the lock.
LoadLookup(s) ==
  /\ sess[s].pc = "load"
  /\ sess' = [sess EXCEPT ![s] =
                IF CacheHit(cache) THEN [@ EXCEPT !.model = cache, !.pc = "tab1"]
                ELSE [@ EXCEPT !.pc = "lock"]]
  /\ UNCHANGED <<cache, lock, initCalls, instances, recognizedWith, files, runs, faults>>

\* A miss: the run waits for the cache's compute lock.
AcquireLock(s) ==
  /\ sess[s].pc = "lock"
  /\ lock = 0
  /\ lock' = s
  /\ sess' = [sess EXCEPT ![s].pc = "locked"]
  /\ UNCHANGED <<cache, initCalls, instances, recognizedWith, files, runs, faults>>

\* Under the lock the cache is read again; a second miss runs the body of
\* load_allosaurus (line 45, read_recognizer()), which either returns a new
\* recognizer, stored in the cache, or raises.
LoadLocked(s) ==
  /\ sess[s].pc = "locked"
  /\ lock = s
  /\ lock' = 0
  /\ IF CacheHit(cache)
       THEN /\ sess' = [sess EXCEPT ![s] = [@ EXCEPT !.model = cache, !.pc = "tab1"]]
            /\ UNCHANGED <<cache, initCalls, instances>>
       ELSE /\ initCalls' = initCalls + 1
            /\ \E ok \in BOOLEAN :
                 IF ok
                   THEN /\ instances' = instances + 1
                        /\ cache' = instances + 1
                        /\ sess' = [sess EXCEPT ![s] =
                                      [@ EXCEPT !.model = instances + 1, !.pc = "tab1"]]
                   ELSE /\ sess' = [sess EXCEPT ![s] = Raise(@, "init")]
                        /\ UNCHANGED <<cache, instances>>
  /\ UNCHANGED <<recognizedWith, files, runs, faults>>

\* ------------------------------------------------------ Flow A (152-196)
\* lines 154-160: without a recording tab1 does nothing; with one, its bytes
\* (audio parselmouth can decode, or not) are written to a fresh
\* NamedTemporaryFile(delete=False).
Tab1(s) ==
  /\ sess[s].pc = "tab1"
  /\ \/ /\ sess' = [sess EXCEPT ![s].pc = "tab2"]
        /\ UNCHANGED files
     \/ \E d \in {"wav", "bad"} :
          /\ files' = files \cup {tmp_name(sess[s].run)}
          /\ sess' = [sess EXCEPT ![s] = [@ EXCEPT !.tmp_path = tmp_name(sess[s].run),
                                                   !.content = d,
                                                   !.pc = "recognize"]]
  /\ UNCHANGED <<cache, lock, initCalls, instances, recognizedWith, runs, faults>>

\* line 164 -> 51-59: model.recognize(audio_path, ...) reads the file and
\* returns the IPA stream, or raises.
Recognize(s) ==
  /\ sess[s].pc = "recognize"
  /\ recognizedWith' = recognizedWith \cup {sess[s].model}
  /\ faults' = faults \cup ReadFault(sess[s].tmp_path)
  /\ \E ok \in BOOLEAN :
       sess' = [sess EXCEPT ![s] =
                  IF ok THEN Advance([@ EXCEPT !.available = @ \cup {<<"ipa", "A">>}])
                  ELSE Raise(@, "recognize")]
  /\ UNCHANGED <<cache, lock, initCalls, instances, files, runs>>

\* lines 167 and 225 -> 93-106, analyze_acoustics: parselmouth.Sound(path)
\* decodes the file or raises; then pitch, its guarded mean, intensity.
Analyze(s) ==
  /\ sess[s].pc \in {"analyzeA", "analyzeB"}
  /\ faults' = faults \cup ReadFault(PathOf(sess[s]))
  /\ IF PathOf(sess[s]) \in files /\ sess[s].content = "wav"
       THEN \E contour \in Contours :
              sess' = [sess EXCEPT ![s] =
                         Advance([@ EXCEPT !.pitch = contour,
                                           !.f0 = mean_f0(get_mean(contour)),
                                           !.available = @ \cup {<<"acoustics", FlowOf(sess[s].pc)>>}])]
       ELSE sess' = [sess EXCEPT ![s] = Raise(@, "analyze")]
  /\ UNCHANGED <<cache, lock, initCalls, instances, recognizedWith, files, runs>>

\* lines 170-192: the IPA card and the three metrics are written to the page.
Present(s) ==
  /\ sess[s].pc = "presentA"
  /\ sess' = [sess EXCEPT ![s] =
                Advance([@ EXCEPT !.presented = @ \cup {<<"ipa", "A">>, <<"metrics", "A">>}])]
  /\ UNCHANGED <<cache, lock, initCalls, instances, recognizedWith, files, runs, faults>>

\* lines 194 and 226 -> 108-131: plot_spectrogram computes the spectrogram
\* from the in-memory sound (line 113) or raises; st.pyplot shows the figure.
\* pitch and f0 are not read after this statement.
Plot(s) ==
  /\ sess[s].pc \in {"plotA", "plotB"}
  /\ \E ok \in BOOLEAN :
       sess' = [sess EXCEPT ![s] =
                  IF ok
                    THEN Advance([@ EXCEPT
                           !.available = @ \cup {<<"spectrogram", FlowOf(sess[s].pc)>>},
                           !.presented = @ \cup {<<"plot", FlowOf(sess[s].pc)>>},
                           !.pitch = <<>>, !.f0 = Unset])
                    ELSE Raise(@, "plot")]
  /\ UNCHANGED <<cache, lock, initCalls, instances, recognizedWith, files, runs, faults>>

\* lines 196 and 228: os.unlink(path).
Unlink(s) ==
  /\ sess[s].pc \in {"unlinkA", "unlinkB"}
  /\ faults' = faults \cup (IF PathOf(sess[s]) \in files THEN {} ELSE {"doubleUnlink"})
  /\ files' = files \ {PathOf(sess[s])}
  /\ sess' = [sess EXCEPT ![s] = Advance([@ EXCEPT !.content = "none"])]
  /\ UNCHANGED <<cache, lock, initCalls, instances, recognizedWith, runs>>

\* ------------------------------------------------------ Flow B (199-230)
\* lines 212-218, 229-230 and 61-84.  Nothing happens without the button; an
\* empty text input gets a warning.  Otherwise ipa_to_speech_direct is
\* entered with the user's string: an empty NamedTemporaryFile(delete=False)
\* is created (67-68) and the renderer's argument formatted (76).
Tab2(s) ==
  /\ sess[s].pc = "tab2"
  /\ \/ /\ sess' = [sess EXCEPT ![s] = Finish(@)]
        /\ UNCHANGED files
     \/ /\ sess' = [sess EXCEPT ![s] =
                      Finish([@ EXCEPT !.presented = @ \cup {<<"warning", "B">>}])]
        /\ UNCHANGED files
     \/ \E user_ipa \in IpaStrings \ {<<>>} :
          /\ files' = files \cup {out_name(sess[s].run)}
          /\ sess' = [sess EXCEPT ![s] = [@ EXCEPT !.output_file = out_name(sess[s].run),
                                                   !.content = "empty",
                                                   !.cmd = formatted_ipa(user_ipa),
                                                   !.pc = "run"]]
  /\ UNCHANGED <<cache, lock, initCalls, instances, recognizedWith, runs, faults>>

\* What subprocess.run(cmd, check=True) can do (line 87): fail to start the
\* renderer (FileNotFoundError, not a CalledProcessError), or run it to an
\* exit code, the renderer having filled the output file or not.
RenderOutcomes ==
  { [rc |-> "notfound", data |-> "empty"],
    [rc |-> "exit1",    data |-> "empty"],
    [rc |-> "exit0",    data |-> "wav"],
    [rc |-> "exit0",    data |-> "empty"] }

\* lines 86-91 and 220: subprocess.run(cmd, check=True).  Exit 0 returns the
\* path (88).  CalledProcessError is reported with st.error and None returned
\* (89-91), so that line 220 skips the rest of the flow.  Any other exception
\* leaves the function.  cmd is a local of the function.
Run(s) ==
  /\ sess[s].pc = "run"
  /\ \E o \in RenderOutcomes :
       LET r == [sess[s] EXCEPT !.rc = o.rc, !.content = o.data, !.cmd = <<>>]
       IN  sess' = [sess EXCEPT ![s] =
             CASE o.rc = "notfound" -> Raise(r, "render")
               [] o.rc = "exit1" ->
                    Finish([r EXCEPT !.failedAt = "render",
                                     !.presented = @ \cup {<<"error", "B">>}])
               [] o.rc = "exit0" ->
                    [r EXCEPT !.synth_path = r.output_file,
                              !.available = @ \cup {<<"render", "B">>},
                              !.pc = "audioB"]]
  /\ UNCHANGED <<cache, lock, initCalls, instances, recognizedWith, files, runs, faults>>

\* line 221: st.audio(synth_path) reads the file into the media store and
\* shows the player.
Audio(s) ==
  /\ sess[s].pc = "audioB"
  /\ faults' = faults \cup ReadFault(sess[s].synth_path)
  /\ sess' = [sess EXCEPT ![s] =
                Advance([@ EXCEPT !.presented = @ \cup {<<"audio", "B">>}])]
  /\ UNCHANGED <<cache, lock, initCalls, instances, recognizedWith, files, runs>>

\* ----------------------------------------------------------- abandonment
\* Positions inside a flow, its transient file created and not yet unlinked.
InFlow == {"recognize", "analyzeA", "presentA", "plotA", "unlinkA",
           "run", "audioB", "analyzeB", "plotB", "unlinkB"}

\* The run is interrupted (the user interacts again or leaves, and Streamlit
\* stops the script thread): the remaining statements never execute.  No
\* try/finally or context manager in lines 156-196 or 214-228 runs on the way.
Abandon(s) ==
  /\ sess[s].pc \in InFlow
  /\ sess' = [sess EXCEPT ![s] = Ended(@, "abandoned")]
  /\ UNCHANGED <<cache, lock, initCalls, instances, recognizedWith, files, runs, faults>>

\* --------------------------------------------------------- specification
Next ==
  \E s \in Sessions :
    \/ StartRun(s)
    \/ LoadLookup(s)
    \/ AcquireLock(s)
    \/ LoadLocked(s)
    \/ Tab1(s)
    \/ Recognize(s)
    \/ Analyze(s)
    \/ Present(s)
    \/ Plot(s)
    \/ Unlink(s)
    \/ Tab2(s)
    \/ Run(s)
    \/ Audio(s)
    \/ Abandon(s)

Spec == Init /\ [][Next]_vars

\* ------------------------------------------------------------ properties
Idle(s)     == sess[s].pc = "idle"
FlowAPcs    == {"recognize", "analyzeA", "presentA", "plotA", "unlinkA"}
ReadingPcs  == {"recognize", "analyzeA", "audioB", "analyzeB"}

\* C1: once a run that created Flow A's transient file has ended, normally
\* or by an exception, the file no longer exists.
FlowAFileDeletedOnEveryExit ==
  \A s \in Sessions :
    (Idle(s) /\ sess[s].tmp_path # 0 /\ sess[s].outcome \in {"done", "uncaught"})
      => sess[s].tmp_path \notin files

\* C2: once a run that created Flow B's rendered-audio file has ended (the
\* renderer exited non-zero, could not be started, or the flow went on), the
\* file no longer exists.
FlowBFileDeletedOnEveryExit ==
  \A s \in Sessions :
    (Idle(s) /\ sess[s].output_file # 0 /\ sess[s].outcome \in {"done", "uncaught"})
      => sess[s].output_file \notin files

\* The shared-instance invariant: at most one recognizer was constructed, it
\* stays in the cache, and every run inside Flow A and every recognition
\* uses it.
RecognizerShared ==
  /\ instances <= 1
  /\ cache \in {0, 1}
  /\ instances = 1 => cache = 1
  /\ recognizedWith \subseteq {1}
  /\ \A s \in Sessions :
       sess[s].pc \in FlowAPcs => (instances = 1 /\ sess[s].model = 1)

FlowAFileDeletedOnAbandon ==
  \A s \in Sessions :
    (Idle(s) /\ sess[s].tmp_path # 0 /\ sess[s].outcome = "abandoned")
      => sess[s].tmp_path \notin files

\* C5: the rendering is taken as successful (a path is returned and the flow
\* goes on) only when the renderer exited with 0 and left a populated file;
\* every other outcome is reported as a synthesis error and the flow does not
\* reach the analysis.
RenderSuccessIffPopulatedOutput ==
  \A s \in Sessions :
    /\ sess[s].synth_path # 0
         => (sess[s].rc = "exit0" /\ sess[s].content = "wav")
    /\ sess[s].rc \in {"notfound", "exit1"}
         => (<<"error", "B">> \in sess[s].presented /\ sess[s].synth_path = 0)

ResultA == {<<"ipa", "A">>, <<"metrics", "A">>, <<"plot", "A">>}
ResultB == {<<"audio", "B">>, <<"plot", "B">>}
NeededA == {<<"ipa", "A">>, <<"acoustics", "A">>, <<"spectrogram", "A">>}
NeededB == {<<"render", "B">>, <<"acoustics", "B">>, <<"spectrogram", "B">>}

\* C6: no element of a flow's result is on the page before the recognition
\* or rendering, the acoustic analysis and the spectrogram are all available;
\* and a run that ended by an exception left no result element on the page.
NothingPresentedBeforeAllSubResults ==
  \A s \in Sessions :
    /\ (~Idle(s) /\ sess[s].presented \cap ResultA # {}) => NeededA \subseteq sess[s].available
    /\ (~Idle(s) /\ sess[s].presented \cap ResultB # {}) => NeededB \subseteq sess[s].available
    /\ (Idle(s) /\ sess[s].outcome = "uncaught")
         => sess[s].presented \cap (ResultA \cup ResultB) = {}

\* C7: a failure of decoding, recognition or rendering never leaves the
\* script as an uncaught exception, it is reported on the page; and the
\* analysis step never fails.
FailuresCaughtAtFlowBoundary ==
  \A s \in Sessions :
    /\ sess[s].failedAt # "analyze"
    /\ sess[s].failedAt \in {"recognize", "render"}
         => (sess[s].outcome # "uncaught" /\ <<"error", "B">> \in sess[s].presented)

\* C8: whenever analyze_acoustics has returned, mean_f0 is not NaN; it is 0.0
\* when the contour has no voiced frame, and otherwise the mean over the
\* voiced frames.
MeanPitchNeverNaN ==
  \A s \in Sessions :
    sess[s].pc \in {"presentA", "plotA", "plotB"} =>
      LET v == Voiced(sess[s].pitch)
      IN  /\ ~sess[s].f0.nan
          /\ Len(v) = 0 => sess[s].f0 = Zero
          /\ Len(v) > 0 => (sess[s].f0.num = SumSeq(v) /\ sess[s].f0.den = Len(v))

\* C8 witness: the analysis returned for a contour that has frames, none of
\* them voiced, with a mean of 0.0.
UnvoicedContourWitness ==
  \E s \in Sessions :
    /\ sess[s].pc = "presentA"
    /\ Len(sess[s].pitch) > 0
    /\ Voiced(sess[s].pitch) = <<>>
    /\ sess[s].f0 = Zero

\* C9: in the argument handed to the renderer the first token opens phonetic
\* mode, the last one closes it, and every token of the user's string between
\* them is read in phonetic mode.
WholeStringInsideOneDelimiterPair ==
  \A s \in Sessions :
    sess[s].cmd # <<>> =>
      LET read == Interpret(sess[s].cmd, "text")
          n    == Len(read)
      IN  /\ read[1] = "open"
          /\ read[n] = "close"
          /\ \A k \in 2..(n - 1) : read[k] = "phon"

\* C10: no transient file is read or unlinked after its unlink: no such
\* fault has happened, and whenever a run is about to read or unlink its
\* transient file, the file exists.
NoUseAfterUnlink ==
  /\ faults = {}
  /\ \A s \in Sessions :
       sess[s].pc \in ReadingPcs \cup {"unlinkA", "unlinkB"} => PathOf(sess[s]) \in files

\* C10 witness: one run went through both flows, every read was made, and
\* both transient files were unlinked.
BothFlowsUnlinkedWitness ==
  \E s \in Sessions :
    /\ Idle(s) /\ sess[s].outcome = "done"
    /\ sess[s].tmp_path # 0 /\ sess[s].tmp_path \notin files
    /\ sess[s].output_file # 0 /\ sess[s].output_file \notin files
    /\ <<"plot", "B">> \in sess[s].presented

====
